---- MODULE Spec2Model ----
(***************************************************************************)
(* rpds persistent list (src/src/list.rs): the node graph held through     *)
(* Arc<Node<T>>, the List handle {node, length}, the Iter cursor, and the  *)
(* derived eq / partial_cmp / cmp / from_iter.                             *)
(*                                                                         *)
(* Memory is a finite array of cells.  A cell is Free, or holds Node::Nil  *)
(* or Node::Cons(val, next), together with the Arc strong count of the     *)
(* allocation that holds it.                                               *)
(***************************************************************************)
EXTENDS Integers, Sequences, FiniteSets, TLC

\* ---------------------------------------------------------------- bounds
MaxNodes == 3
NSlots == 3
NThreads == 2
MaxSrcLen == 2
MaxCmpLen == 2

\* Cells of memory: enough for the MaxNodes nodes of Spec, for the three lists
\* that InitCmp builds, and for the shared list of InitConc with one node more
\* per thread.
Largest(a, b) == IF a > b THEN a ELSE b
HeapSize == Largest(MaxNodes + NSlots, Largest(3 * (MaxCmpLen + 1), MaxSrcLen + 1 + NThreads))
NodeIds == 1..HeapSize
Slots == 1..NSlots
Threads == 1..NThreads
Cursors == 1..NThreads
Main == CHOOSE t \in Threads : \A u \in Threads : t <= u

\* f32::NAN of test_partial_ord, the one element that is not equal to itself.
NaN == -1
Elems == {1, 2}
PartialElems == {1, 2, NaN}

RECURSIVE SeqsUpTo(_, _)
SeqsUpTo(S, n) ==
    IF n = 0 THEN {<<>>}
    ELSE LET shorter == SeqsUpTo(S, n - 1)
         IN shorter \cup {<<x>> \o s : x \in S, s \in {q \in shorter : Len(q) = n - 1}}

\* ----------------------------------------------------------------- state
VARIABLES
    heap,      \* NodeIds -> cell: the Arc allocations
    handles,   \* Slots -> List value held by the program (NoHandle: none)
    cursors,   \* Cursors -> Iter value (NoCursor: none)
    drops,     \* Threads -> the Arc drop glue in progress on that thread
    last       \* the call that made the last step, with its result (in a step,
               \* last' is the call that makes the step)

vars == <<heap, handles, cursors, drops, last>>

FreeCell == [tag |-> "Free", val |-> 0, next |-> 0, strong |-> 0]
NilCell == [tag |-> "Nil", val |-> 0, next |-> 0, strong |-> 1]
ConsCell(v, t) == [tag |-> "Cons", val |-> v, next |-> t, strong |-> 1]

NoHandle == [node |-> 0, length |-> 0]
NoCursor == [next |-> 0, length |-> 0, src |-> 0, seen |-> <<>>]
IdleDrop == [target |-> 0, stack |-> <<>>]
NoCall == [op |-> "none", src |-> 0, dst |-> 0, val |-> 0, some |-> FALSE, input |-> <<>>, ord |-> "-"]

Call(op, src, dst, val, some, input) ==
    [op |-> op, src |-> src, dst |-> dst, val |-> val, some |-> some, input |-> input, ord |-> "-"]
OrdCall(op, src, dst, ord) ==
    [op |-> op, src |-> src, dst |-> dst, val |-> 0, some |-> ord # "None", input |-> <<>>, ord |-> ord]

IsLive(h) == h.node # 0
Allocated(hp) == {n \in NodeIds : hp[n].tag # "Free"}

\* ------------------------------------------------------------------- Arc
\* Arc::new: a fresh allocation with strong count 1.  The allocator hands out
\* the lowest free cell.
HasFree(hp, k) == Cardinality(Allocated(hp)) + k <= HeapSize
FreshId(hp) == CHOOSE n \in NodeIds : hp[n].tag = "Free" /\ \A m \in NodeIds : m < n => hp[m].tag # "Free"
ArcNew(hp, cell) == [heap |-> [hp EXCEPT ![FreshId(hp)] = cell], node |-> FreshId(hp)]

\* Arc::clone: one atomic fetch_add on the strong count.
ArcClone(hp, n) == [hp EXCEPT ![n].strong = @ + 1]

\* Arc::drop run to completion: fetch_sub; the holder of the last reference
\* drops the node, which drops its next reference in turn, and deallocates.
RECURSIVE ArcDrop(_, _)
ArcDrop(hp, n) ==
    IF hp[n].strong # 1 THEN [hp EXCEPT ![n].strong = @ - 1]
    ELSE IF hp[n].tag = "Cons"
         THEN [ArcDrop([hp EXCEPT ![n].strong = 0], hp[n].next) EXCEPT ![n] = FreeCell]
         ELSE [hp EXCEPT ![n] = FreeCell]

\* ------------------------------------------------------------------ List
\* Each operation maps the memory to the memory after it and its result.
ListNewShared(hp) ==
    IF \E n \in NodeIds : hp[n].tag = "Nil"
    THEN LET n == CHOOSE m \in NodeIds : hp[m].tag = "Nil"
         IN [heap |-> ArcClone(hp, n), list |-> [node |-> n, length |-> 0]]
    ELSE LET a == ArcNew(hp, NilCell)
         IN [heap |-> a.heap, list |-> [node |-> a.node, length |-> 0]]
ListNew(hp) ==
    LET a == ArcNew(hp, NilCell)
    IN [heap |-> a.heap, list |-> [node |-> a.node, length |-> 0]]

ListConsKeepLength(hp, l, v) ==
    LET a == ArcNew(ArcClone(hp, l.node), ConsCell(v, l.node))
    IN [heap |-> a.heap, list |-> [node |-> a.node, length |-> l.length]]
ListCons(hp, l, v) ==
    LET a == ArcNew(ArcClone(hp, l.node), ConsCell(v, l.node))
    IN [heap |-> a.heap, list |-> [node |-> a.node, length |-> l.length + 1]]

\* tail: None is NoHandle.
ListTailCopy(hp, l) ==
    IF hp[l.node].tag # "Cons" THEN [heap |-> hp, list |-> NoHandle]
    ELSE LET t == hp[l.node].next
             c == IF hp[t].tag = "Cons" THEN ArcClone(hp, hp[t].next) ELSE hp
             a == ArcNew(c, [hp[t] EXCEPT !.strong = 1])
         IN [heap |-> a.heap, list |-> [node |-> a.node, length |-> l.length - 1]]
ListTailNoClone(hp, l) ==
    IF hp[l.node].tag = "Cons"
    THEN [heap |-> hp, list |-> [node |-> hp[l.node].next, length |-> l.length - 1]]
    ELSE [heap |-> hp, list |-> NoHandle]
ListTail(hp, l) ==
    IF hp[l.node].tag = "Cons"
    THEN [heap |-> ArcClone(hp, hp[l.node].next),
          list |-> [node |-> hp[l.node].next, length |-> l.length - 1]]
    ELSE [heap |-> hp, list |-> NoHandle]

ListCloneNoCount(hp, l) == [heap |-> hp, list |-> [node |-> l.node, length |-> l.length]]
ListClone(hp, l) == [heap |-> ArcClone(hp, l.node), list |-> [node |-> l.node, length |-> l.length]]

ListLen(l) == l.length

\* ------------------------------------------------------------------ Iter
\* A cursor is Iter's next and length; with them the model keeps src, the
\* variable whose list the cursor borrows (the lifetime 'a), and seen, the
\* elements the cursor has produced so far.
IterNew(l, s) == [next |-> l.node, length |-> ListLen(l), src |-> s, seen |-> <<>>]

\* next: the cursor after the call, and Some(val) or None.
IterNextKeepLength(hp, c) ==
    IF hp[c.next].tag = "Cons"
    THEN [iter |-> [c EXCEPT !.next = hp[c.next].next, !.seen = Append(@, hp[c.next].val)],
          some |-> TRUE, val |-> hp[c.next].val]
    ELSE [iter |-> c, some |-> FALSE, val |-> 0]
IterNext(hp, c) ==
    IF hp[c.next].tag = "Cons"
    THEN [iter |-> [c EXCEPT !.next = hp[c.next].next, !.length = @ - 1,
                             !.seen = Append(@, hp[c.next].val)],
          some |-> TRUE, val |-> hp[c.next].val]
    ELSE [iter |-> c, some |-> FALSE, val |-> 0]

SizeHint(c) == c.length

\* A cursor run to exhaustion: the elements it produces, in order (a walk of
\* more than HeapSize steps is cut: no list is that long).
RECURSIVE IterRun(_, _, _)
IterRun(hp, c, fuel) ==
    LET r == IterNext(hp, c)
    IN IF r.some /\ fuel > 0 THEN <<r.val>> \o IterRun(hp, r.iter, fuel - 1) ELSE <<>>
IterCollect(hp, c) == IterRun(hp, c, HeapSize)

\* ------------------------------------------------- the element type T
\* PartialEq, PartialOrd and Ord of the elements: integers, and NaN, which
\* (as for f32) is neither equal nor ordered to anything, itself included.
ElemEq(x, y) == x # NaN /\ y # NaN /\ x = y
ElemPartialCmp(x, y) ==
    IF x = NaN \/ y = NaN THEN "None"
    ELSE IF x < y THEN "Less" ELSE IF x > y THEN "Greater" ELSE "Equal"
ElemCmp(x, y) == IF x < y THEN "Less" ELSE IF x > y THEN "Greater" ELSE "Equal"

\* ------------------------------------------- eq, partial_cmp, cmp
\* Iterator::eq: step both cursors; equal when both end together and no
\* pair of elements differs.
RECURSIVE IterEq(_, _, _)
IterEq(hp, a, b) ==
    LET x == IterNext(hp, a)
        y == IterNext(hp, b)
    IN IF ~x.some THEN ~y.some
       ELSE IF ~y.some THEN FALSE
       ELSE IF ~ElemEq(x.val, y.val) THEN FALSE
       ELSE IterEq(hp, x.iter, y.iter)

\* Iterator::partial_cmp: the first pair that is not Some(Equal) is the
\* result; a cursor that ends first is Less.
RECURSIVE IterPartialCmp(_, _, _)
IterPartialCmp(hp, a, b) ==
    LET x == IterNext(hp, a)
        y == IterNext(hp, b)
    IN IF ~x.some THEN (IF ~y.some THEN "Equal" ELSE "Less")
       ELSE IF ~y.some THEN "Greater"
       ELSE IF ElemPartialCmp(x.val, y.val) # "Equal" THEN ElemPartialCmp(x.val, y.val)
       ELSE IterPartialCmp(hp, x.iter, y.iter)

\* Iterator::cmp: the same walk with the total order of T: Ord.
RECURSIVE IterCmp(_, _, _)
IterCmp(hp, a, b) ==
    LET x == IterNext(hp, a)
        y == IterNext(hp, b)
    IN IF ~x.some THEN (IF ~y.some THEN "Equal" ELSE "Less")
       ELSE IF ~y.some THEN "Greater"
       ELSE IF ElemCmp(x.val, y.val) # "Equal" THEN ElemCmp(x.val, y.val)
       ELSE IterCmp(hp, x.iter, y.iter)

ListEqLengthOnly(hp, a, b) == a.length = b.length
ListEq(hp, a, b) == a.length = b.length /\ IterEq(hp, IterNew(a, 0), IterNew(b, 0))

ListPartialCmpByLength(hp, a, b) ==
    IF a.length < b.length THEN "Less"
    ELSE IF a.length > b.length THEN "Greater"
    ELSE IterPartialCmp(hp, IterNew(a, 0), IterNew(b, 0))
ListPartialCmp(hp, a, b) == IterPartialCmp(hp, IterNew(a, 0), IterNew(b, 0))

ListCmp(hp, a, b) == IterCmp(hp, IterNew(a, 0), IterNew(b, 0))

\* from_iter: buffer the source in a Vec, then cons the buffer's elements
\* from the last to the first; each assignment to list drops the list it held.
RECURSIVE Buffer(_, _)
Buffer(vec, src) == IF src = <<>> THEN vec ELSE Buffer(Append(vec, Head(src)), Tail(src))

RECURSIVE ConsForward(_, _, _)
ConsForward(hp, l, vec) ==
    IF vec = <<>> THEN [heap |-> hp, list |-> l]
    ELSE LET c == ListCons(hp, l, Head(vec))
         IN ConsForward(ArcDrop(c.heap, l.node), c.list, Tail(vec))

RECURSIVE ConsRev(_, _, _)
ConsRev(hp, l, vec) ==
    IF vec = <<>> THEN [heap |-> hp, list |-> l]
    ELSE LET c == ListCons(hp, l, vec[Len(vec)])
         IN ConsRev(ArcDrop(c.heap, l.node), c.list, SubSeq(vec, 1, Len(vec) - 1))

FromIterNoRev(hp, src) ==
    LET n == ListNew(hp)
    IN ConsForward(n.heap, n.list, Buffer(<<>>, src))
FromIter(hp, src) ==
    LET n == ListNew(hp)
    IN ConsRev(n.heap, n.list, Buffer(<<>>, src))

\* --------------------------------------------------------------- actions
\* Thread t runs one call at a time: it starts none while its drop glue runs.
Idle(t) == drops[t] = IdleDrop
\* The node a live handle or cursor points at holds a node.
Holds(n) == n # 0 /\ heap[n].tag # "Free"

New(t, d) ==
    /\ Idle(t) /\ ~IsLive(handles[d]) /\ HasFree(heap, 1)
    /\ LET r == ListNew(heap)
       IN /\ heap' = r.heap
          /\ handles' = [handles EXCEPT ![d] = r.list]
    /\ last' = Call("new", 0, d, 0, TRUE, <<>>)
    /\ UNCHANGED <<cursors, drops>>

Cons(t, s, d, v) ==
    /\ Idle(t) /\ IsLive(handles[s]) /\ ~IsLive(handles[d]) /\ HasFree(heap, 1)
    /\ Holds(handles[s].node)
    /\ LET r == ListCons(heap, handles[s], v)
       IN /\ heap' = r.heap
          /\ handles' = [handles EXCEPT ![d] = r.list]
    /\ last' = Call("cons", s, d, v, TRUE, <<>>)
    /\ UNCHANGED <<cursors, drops>>

TailOf(t, s, d) ==
    /\ Idle(t) /\ IsLive(handles[s]) /\ ~IsLive(handles[d])
    /\ Holds(handles[s].node)
    /\ LET r == ListTail(heap, handles[s])
       IN /\ heap' = r.heap
          /\ handles' = [handles EXCEPT ![d] = r.list]
          /\ last' = Call("tail", s, d, 0, IsLive(r.list), <<>>)
    /\ UNCHANGED <<cursors, drops>>

Clone(t, s, d) ==
    /\ Idle(t) /\ IsLive(handles[s]) /\ ~IsLive(handles[d])
    /\ LET r == ListClone(heap, handles[s])
       IN /\ heap' = r.heap
          /\ handles' = [handles EXCEPT ![d] = r.list]
    /\ last' = Call("clone", s, d, 0, TRUE, <<>>)
    /\ UNCHANGED <<cursors, drops>>

Collect(t, src, d) ==
    /\ Idle(t) /\ ~IsLive(handles[d]) /\ HasFree(heap, Len(src) + 1)
    /\ LET r == FromIter(heap, src)
       IN /\ heap' = r.heap
          /\ handles' = [handles EXCEPT ![d] = r.list]
    /\ last' = Call("from_iter", 0, d, 0, TRUE, src)
    /\ UNCHANGED <<cursors, drops>>

\* iter: the cursor borrows handle s for as long as it lives.
IterOf(t, s, c) ==
    /\ Idle(t) /\ IsLive(handles[s]) /\ cursors[c] = NoCursor
    /\ cursors' = [cursors EXCEPT ![c] = IterNew(handles[s], s)]
    /\ last' = Call("iter", s, c, 0, TRUE, <<>>)
    /\ UNCHANGED <<heap, handles, drops>>

Step(t, c) ==
    /\ Idle(t) /\ cursors[c] # NoCursor
    /\ Holds(cursors[c].next)
    /\ LET r == IterNext(heap, cursors[c])
       IN /\ cursors' = [cursors EXCEPT ![c] = r.iter]
          /\ last' = Call("next", 0, c, r.val, r.some, <<>>)
    /\ UNCHANGED <<heap, handles, drops>>

IterEnd(t, c) ==
    /\ Idle(t) /\ cursors[c] # NoCursor
    /\ cursors' = [cursors EXCEPT ![c] = NoCursor]
    /\ last' = Call("iter_end", 0, c, 0, TRUE, <<>>)
    /\ UNCHANGED <<heap, handles, drops>>

\* Dropping a List drops its node field: nothing may still borrow the list.
Borrowed(s) == \E c \in Cursors : cursors[c] # NoCursor /\ cursors[c].src = s

DropBegin(t, s) ==
    /\ Idle(t) /\ IsLive(handles[s]) /\ ~Borrowed(s)
    /\ handles' = [handles EXCEPT ![s] = NoHandle]
    /\ drops' = [drops EXCEPT ![t] = [target |-> handles[s].node, stack |-> <<>>]]
    /\ last' = Call("drop", s, 0, 0, TRUE, <<>>)
    /\ UNCHANGED <<heap, cursors>>

\* Arc::drop of the target: fetch_sub(1); unless that was the last reference
\* the call returns.  Otherwise the node is dropped in place, which (for
\* Cons) calls Arc::drop of its next field from within this call.
LastRef(old) == old = 1

DropStep(t) ==
    /\ drops[t].target # 0
    /\ LET n == drops[t].target
       IN /\ heap' = [heap EXCEPT ![n].strong = @ - 1]
          /\ drops' = [drops EXCEPT ![t] =
                IF ~LastRef(heap[n].strong) THEN [@ EXCEPT !.target = 0]
                ELSE [target |-> IF heap[n].tag = "Cons" THEN heap[n].next ELSE 0,
                      stack |-> Append(@.stack, n)]]
    /\ last' = Call("arc_drop", 0, 0, 0, LastRef(heap[drops[t].target].strong), <<>>)
    /\ UNCHANGED <<handles, cursors>>

\* The innermost drop in place has returned: its allocation is freed and
\* the call returns to its caller.
DropReturn(t) ==
    /\ drops[t].target = 0 /\ drops[t].stack # <<>>
    /\ LET k == Len(drops[t].stack)
       IN /\ heap' = [heap EXCEPT ![drops[t].stack[k]] = FreeCell]
          /\ drops' = [drops EXCEPT ![t].stack = SubSeq(@, 1, k - 1)]
    /\ last' = Call("dealloc", 0, 0, 0, TRUE, <<>>)
    /\ UNCHANGED <<handles, cursors>>

\* eq, partial_cmp and cmp of the lists in variables a and b: reads only.
EqCall(t, a, b) ==
    /\ Idle(t) /\ IsLive(handles[a]) /\ IsLive(handles[b])
    /\ last' = Call("eq", a, b, 0, ListEq(heap, handles[a], handles[b]), <<>>)
    /\ UNCHANGED <<heap, handles, cursors, drops>>

PartialCmpCall(t, a, b) ==
    /\ Idle(t) /\ IsLive(handles[a]) /\ IsLive(handles[b])
    /\ last' = OrdCall("partial_cmp", a, b, ListPartialCmp(heap, handles[a], handles[b]))
    /\ UNCHANGED <<heap, handles, cursors, drops>>

\* cmp exists for T: Ord only: no element is NaN.
IsOrd(hp) == \A n \in NodeIds : hp[n].tag = "Cons" => hp[n].val # NaN
CmpCall(t, a, b) ==
    /\ Idle(t) /\ IsLive(handles[a]) /\ IsLive(handles[b]) /\ IsOrd(heap)
    /\ last' = OrdCall("cmp", a, b, ListCmp(heap, handles[a], handles[b]))
    /\ UNCHANGED <<heap, handles, cursors, drops>>

\* ------------------------------------------------- one thread: Spec
EmptyHeap == [n \in NodeIds |-> FreeCell]

Init ==
    /\ heap = EmptyHeap
    /\ handles = [s \in Slots |-> NoHandle]
    /\ cursors = [c \in Cursors |-> NoCursor]
    /\ drops = [t \in Threads |-> IdleDrop]
    /\ last = NoCall

\* The program keeps at most MaxNodes nodes allocated, and stores a new handle
\* in its first unused variable.
Room(k) == Cardinality(Allocated(heap)) + k <= MaxNodes
HasSlot == \E d \in Slots : ~IsLive(handles[d])
NewSlot == CHOOSE d \in Slots : ~IsLive(handles[d]) /\ \A e \in Slots : e < d => IsLive(handles[e])

Next ==
    \/ HasSlot /\ Room(1) /\ New(Main, NewSlot)
    \/ \E s \in Slots, v \in Elems : HasSlot /\ Room(1) /\ Cons(Main, s, NewSlot, v)
    \/ \E s \in Slots : HasSlot /\ TailOf(Main, s, NewSlot)
    \/ \E s \in Slots : HasSlot /\ Clone(Main, s, NewSlot)
    \/ \E src \in SeqsUpTo(Elems, MaxSrcLen) : HasSlot /\ Room(Len(src) + 1) /\ Collect(Main, src, NewSlot)
    \/ \E s \in Slots : DropBegin(Main, s)
    \/ DropStep(Main)
    \/ DropReturn(Main)

Spec == Init /\ [][Next]_vars

\* ------------------------------------------------- cursors: SpecIter
\* One list, collected from any source of up to MaxSrcLen elements, and the
\* cursors over it.
InitIter ==
    /\ \E src \in SeqsUpTo(Elems, MaxSrcLen) :
          LET r == FromIter(EmptyHeap, src)
          IN heap = r.heap /\ handles = [s \in Slots |-> IF s = 1 THEN r.list ELSE NoHandle]
    /\ cursors = [c \in Cursors |-> NoCursor]
    /\ drops = [t \in Threads |-> IdleDrop]
    /\ last = NoCall

NextIter ==
    \/ \E c \in Cursors : IterOf(Main, 1, c)
    \/ \E c \in Cursors : Step(Main, c)
    \/ \E c \in Cursors : IterEnd(Main, c)

SpecIter == InitIter /\ [][NextIter]_vars

\* ------------------------------------------- comparisons: SpecCmp
\* Three lists collected from any sources of up to MaxCmpLen elements, NaN
\* among them, and the comparisons of any two of them.
InitCmp ==
    /\ \E s1, s2, s3 \in SeqsUpTo(PartialElems, MaxCmpLen) :
          LET r1 == FromIter(EmptyHeap, s1)
              r2 == FromIter(r1.heap, s2)
              r3 == FromIter(r2.heap, s3)
          IN /\ heap = r3.heap
             /\ handles = [s \in Slots |-> IF s = 1 THEN r1.list ELSE IF s = 2 THEN r2.list
                                           ELSE IF s = 3 THEN r3.list ELSE NoHandle]
    /\ cursors = [c \in Cursors |-> NoCursor]
    /\ drops = [t \in Threads |-> IdleDrop]
    /\ last = NoCall

\* The receiver is the first list; every pair of lists is some state's (1, b).
NextCmp ==
    \/ \E b \in Slots : EqCall(Main, 1, b)
    \/ \E b \in Slots : PartialCmpCall(Main, 1, b)
    \/ \E b \in Slots : CmpCall(Main, 1, b)

SpecCmp == InitCmp /\ [][NextCmp]_vars

\* ------------------------------------------------- threads: SpecConc
\* One list, shared by reference with every thread for as long as the threads
\* run.  Each thread has a variable and a cursor of its own: it clones the
\* shared list or conses its own number onto it, iterates the shared list or
\* its own, and drops its own.  A step is one call (each call makes at most one
\* atomic operation on a strong count that another thread can reach), or one
\* atomic operation on a strong count within a drop; steps of different
\* threads interleave.
Shared == CHOOSE s \in Slots : \A u \in Slots : s <= u
Own(t) == Shared + t
SharedSrc == [i \in 1..MaxSrcLen |-> i]

InitConc ==
    /\ LET r == FromIter(EmptyHeap, SharedSrc)
       IN heap = r.heap /\ handles = [s \in Slots |-> IF s = Shared THEN r.list ELSE NoHandle]
    /\ cursors = [c \in Cursors |-> NoCursor]
    /\ drops = [t \in Threads |-> IdleDrop]
    /\ last = NoCall

NextConc ==
    \E t \in Threads :
        \/ Clone(t, Shared, Own(t))
        \/ Cons(t, Shared, Own(t), t)
        \/ \E s \in {Shared, Own(t)} : IterOf(t, s, t)
        \/ Step(t, t)
        \/ IterEnd(t, t)
        \/ DropBegin(t, Own(t))
        \/ DropStep(t)
        \/ DropReturn(t)

SpecConc == InitConc /\ [][NextConc]_vars

\* ================================================================ claims
\* The element-nodes reachable from node n before Nil, read off the graph.
RECURSIVE Walk(_, _, _)
Walk(hp, n, fuel) ==
    IF n = 0 \/ fuel = 0 \/ hp[n].tag # "Cons" THEN <<>>
    ELSE <<hp[n].val>> \o Walk(hp, hp[n].next, fuel - 1)
Elements(hp, n) == Walk(hp, n, HeapSize)

\* The nodes reachable from node n, the terminator included.
RECURSIVE Chain(_, _, _)
Chain(hp, n, fuel) ==
    IF n = 0 \/ fuel = 0 THEN {}
    ELSE IF hp[n].tag = "Cons" THEN {n} \cup Chain(hp, hp[n].next, fuel - 1) ELSE {n}
Reach(hp, n) == Chain(hp, n, HeapSize)

Live == {s \in Slots : IsLive(handles[s])}

\* The cached length of every handle against its graph and a fresh cursor.
LengthExact ==
    \A s \in Live :
        /\ ListLen(handles[s]) = Len(Elements(heap, handles[s].node))
        /\ ListLen(handles[s]) = Len(IterCollect(heap, IterNew(handles[s], s)))
        /\ ListLen(handles[s]) >= 0
\* How a step carries the length from the receiver to the result.
LengthCarried ==
    /\ last'.op = "cons" => handles'[last'.dst].length = handles[last'.src].length + 1
    /\ last'.op = "tail" /\ last'.some => handles'[last'.dst].length = handles[last'.src].length - 1
    /\ last'.op = "clone" => handles'[last'.dst].length = handles[last'.src].length
    /\ last'.op = "new" => handles'[last'.dst].length = 0
\* C1: every handle's cached length is the number of element-nodes reachable
\* from its root before Nil, which is the number of elements a fresh cursor
\* over it produces; cons carries the receiver's length forward plus one, tail
\* minus one, and no length is below 0.
C1_LengthIsElementCount == []LengthExact /\ [][LengthCarried]_vars
C1_Witness ==
    /\ last.op = "tail" /\ last.some
    /\ handles[last.dst].length = 1
    /\ \E s \in Live : handles[s].length = 2 /\ Len(Elements(heap, handles[s].node)) = 2

\* The handle in variable s and the graph below it are the same after a step.
SameGraph(s) ==
    /\ handles'[s] = handles[s]
    /\ Elements(heap', handles'[s].node) = Elements(heap, handles[s].node)
    /\ \A n \in Reach(heap, handles[s].node) :
          /\ heap'[n].tag = heap[n].tag
          /\ heap'[n].val = heap[n].val
          /\ heap'[n].next = heap[n].next
Persistent ==
    /\ \A s \in Live : (last'.op = "drop" /\ last'.src = s) \/ SameGraph(s)
    /\ (last'.op \in {"cons", "clone"} \/ (last'.op = "tail" /\ last'.some))
          => ~IsLive(handles[last'.dst]) /\ IsLive(handles'[last'.dst])
\* C2: a step leaves every handle that exists before it (the one being dropped
\* apart) as it was: the same root, length and head-to-tail elements, and the
\* same contents in every node reachable from it; cons, tail and clone put
\* their result in a variable that held no list.
C2_Persistence == [][Persistent]_vars
C2_Witness ==
    /\ last.op = "cons"
    /\ handles[last.src].length >= 1
    /\ heap[handles[last.dst].node].next = handles[last.src].node
    /\ Elements(heap, handles[last.src].node) = Tail(Elements(heap, handles[last.dst].node))

\* cons(l, v).tail() against l.
TailOfConsIs(l, v) ==
    LET c == ListCons(heap, l, v)
        t == ListTail(c.heap, c.list)
    IN /\ IsLive(t.list)
       /\ t.list.node = l.node
       /\ t.list.length = l.length
       /\ Allocated(t.heap) = Allocated(c.heap)
       /\ Elements(t.heap, t.list.node) = Elements(heap, l.node)
       /\ ListEq(t.heap, t.list, l)
\* C3: for every list L and value v, cons(L, v).tail() is present, has L's
\* root as its root (tail allocates nothing), L's length and L's elements, and
\* is equal to L; tail of an empty list is None; and the tail just taken has
\* the node after its receiver's root as its root.
C3_TailOfCons ==
    /\ \A s \in Live, v \in Elems : TailOfConsIs(handles[s], v)
    /\ \A s \in Live : handles[s].length = 0 => ~IsLive(ListTail(heap, handles[s]).list)
    /\ last.op = "tail" =>
          /\ last.some = (handles[last.src].length # 0)
          /\ last.some => /\ handles[last.dst].node = heap[handles[last.src].node].next
                          /\ \A s \in Live : handles[s].node = heap[handles[last.src].node].next
                                                => handles[last.dst] = handles[s]
C3_Witness ==
    /\ last.op = "tail" /\ last.some
    /\ \E s \in Live : /\ s # last.src /\ s # last.dst
                       /\ handles[s].length = 1
                       /\ heap[handles[last.src].node].next = handles[s].node
                       /\ handles[last.dst] = handles[s]

\* C4: the list collected from a source has the source's number of elements
\* and a cursor over it produces the source's elements in the source's order.
C4_FromIterRoundTrip ==
    last.op = "from_iter" =>
        /\ ListLen(handles[last.dst]) = Len(last.input)
        /\ IterCollect(heap, IterNew(handles[last.dst], last.dst)) = last.input
        /\ Elements(heap, handles[last.dst].node) = last.input
C4_Witness ==
    /\ last.op = "from_iter" /\ Len(last.input) = 2 /\ last.input[1] # last.input[2]
    /\ IterCollect(heap, IterNew(handles[last.dst], last.dst)) = last.input

\* What a new and a cons step return and allocate.
NewIsEmpty ==
    last'.op = "new" => /\ heap'[handles'[last'.dst].node].tag = "Nil"
                        /\ handles'[last'.dst].length = 0
ConsAllocatesOne ==
    last'.op = "cons" => /\ Cardinality(Allocated(heap') \ Allocated(heap)) = 1
                         /\ Allocated(heap) \subseteq Allocated(heap')
                         /\ handles'[last'.dst].node \notin Allocated(heap)
NewAllocatesNil ==
    last'.op = "new" => /\ Cardinality(Allocated(heap') \ Allocated(heap)) = 1
                        /\ Allocated(heap) \subseteq Allocated(heap')
                        /\ handles'[last'.dst].node \notin Allocated(heap)
C10_ReleaseDepthConstant == \A t \in Threads : Len(drops[t].stack) <= 1

LiveCursors == {c \in Cursors : cursors[c] # NoCursor}
CursorExact ==
    /\ \A c \in LiveCursors :
          /\ SizeHint(cursors[c]) = Len(IterCollect(heap, cursors[c]))
          /\ cursors[c].seen \o IterCollect(heap, cursors[c]) = Elements(heap, handles[cursors[c].src].node)
    /\ last.op = "iter" => SizeHint(cursors[last.dst]) = ListLen(handles[last.src])
CursorStep ==
    last'.op = "next" =>
        /\ last'.some = (SizeHint(cursors[last'.dst]) > 0)
        /\ last'.some => SizeHint(cursors'[last'.dst]) = SizeHint(cursors[last'.dst]) - 1
        /\ ~last'.some => cursors'[last'.dst] = cursors[last'.dst] /\ SizeHint(cursors'[last'.dst]) = 0
\* C5: a cursor's remaining-count is the number of elements it will still
\* produce, at every step: the handle's length when fresh, one less after
\* each element, and 0 once exhausted, when every further step yields None
\* and leaves the cursor as it is.
C5_CursorCountExact == []CursorExact /\ [][CursorStep]_vars
C5_Witness ==
    /\ last.op = "next" /\ ~last.some
    /\ Len(cursors[last.dst].seen) = 2
    /\ SizeHint(cursors[last.dst]) = 0

\* Two lists' elements are pairwise equal under the element type's equality.
PairwiseEqual(sa, sb) == Len(sa) = Len(sb) /\ \A i \in 1..Len(sa) : ElemEq(sa[i], sb[i])
ElementsOf(s) == Elements(heap, handles[s].node)
EqOf(a, b) == ListEq(heap, handles[a], handles[b])

EqSymmetric == \A a, b \in Live : EqOf(a, b) => EqOf(b, a)
EqTransitive == \A a, b, c \in Live : EqOf(a, b) /\ EqOf(b, c) => EqOf(a, c)
EqIsPairwise ==
    /\ \A a, b \in Live : EqOf(a, b) = PairwiseEqual(ElementsOf(a), ElementsOf(b))
    /\ last.op = "eq" => last.some = PairwiseEqual(ElementsOf(last.src), ElementsOf(last.dst))
\* C6 as stated: equality of lists is reflexive for every list, symmetric and
\* transitive, and holds iff the lengths are equal and the elements pairwise
\* equal in head-to-tail order.
C6_EqIsEquivalence ==
    /\ \A a \in Live : EqOf(a, a)
    /\ EqSymmetric /\ EqTransitive /\ EqIsPairwise
\* C6 as the code has it: L == L exactly for the lists whose elements are each
\* equal to themselves (a list that holds a NaN is not equal to itself);
\* symmetry, transitivity and the pairwise definition hold for all lists.
C6_EqReflexiveOnSelfEqual ==
    /\ \A a \in Live : EqOf(a, a) = (\A i \in 1..Len(ElementsOf(a)) : ElemEq(ElementsOf(a)[i], ElementsOf(a)[i]))
    /\ EqSymmetric /\ EqTransitive /\ EqIsPairwise
C6_Witness ==
    /\ last.op = "eq" /\ last.some /\ last.src # last.dst
    /\ Len(ElementsOf(last.src)) = 2
    /\ \E c \in Live : c # last.src /\ c # last.dst /\ EqOf(last.dst, c) /\ EqOf(last.src, c)
    /\ handles[last.src].node # handles[last.dst].node

\* The lexicographic order of two sequences, by the first index that decides.
Shorter(sa, sb) == IF Len(sa) < Len(sb) THEN Len(sa) ELSE Len(sb)
Deciding(sa, sb) == {i \in 1..Shorter(sa, sb) : ElemPartialCmp(sa[i], sb[i]) # "Equal"}
FirstDeciding(sa, sb) == CHOOSE i \in Deciding(sa, sb) : \A j \in Deciding(sa, sb) : i <= j
Lexicographic(sa, sb) ==
    IF Deciding(sa, sb) # {} THEN ElemPartialCmp(sa[FirstDeciding(sa, sb)], sb[FirstDeciding(sa, sb)])
    ELSE IF Len(sa) < Len(sb) THEN "Less"
    ELSE IF Len(sa) > Len(sb) THEN "Greater"
    ELSE "Equal"
\* C7: the order of two lists is that of the first pair of elements, head to
\* tail, that is not equal (Less, Greater, or incomparable, whatever follows
\* it); with no such pair the list that ends first is Less, and lists that end
\* together are Equal; so cmp(L, L) is Equal.
C7_OrderIsLexicographic ==
    /\ \A a, b \in Live :
          /\ ListPartialCmp(heap, handles[a], handles[b]) = Lexicographic(ElementsOf(a), ElementsOf(b))
          /\ IsOrd(heap) => ListCmp(heap, handles[a], handles[b]) = Lexicographic(ElementsOf(a), ElementsOf(b))
          /\ (Deciding(ElementsOf(a), ElementsOf(b)) = {} /\ Len(ElementsOf(a)) < Len(ElementsOf(b)))
                => ListPartialCmp(heap, handles[a], handles[b]) = "Less"
    /\ \A a \in Live : IsOrd(heap) => ListCmp(heap, handles[a], handles[a]) = "Equal"
    /\ last.op \in {"partial_cmp", "cmp"} => last.ord = Lexicographic(ElementsOf(last.src), ElementsOf(last.dst))
C7_Witness ==
    /\ last.op = "partial_cmp" /\ last.ord = "None"
    /\ Len(ElementsOf(last.src)) = 2 /\ Len(ElementsOf(last.dst)) = 2
    /\ ElemPartialCmp(ElementsOf(last.src)[2], ElementsOf(last.dst)[2]) = "Less"

\* The references to node n: handles, next fields of nodes not yet dropped,
\* and references whose Arc::drop has begun and not yet decremented.
References(n) ==
    Cardinality({s \in Slots : handles[s].node = n})
    + Cardinality({m \in NodeIds : heap[m].tag = "Cons" /\ heap[m].strong > 0 /\ heap[m].next = n})
    + Cardinality({t \in Threads : drops[t].target = n})
CountsExact == \A n \in NodeIds : heap[n].strong = References(n)
NoLiveNodeReleased ==
    /\ \A s \in Live : \A n \in Reach(heap, handles[s].node) : heap[n].tag # "Free" /\ heap[n].strong > 0
    /\ \A c \in LiveCursors : \A n \in Reach(heap, cursors[c].next) : heap[n].tag # "Free" /\ heap[n].strong > 0
CursorsAgree ==
    \A c \in LiveCursors :
        /\ cursors[c].seen \o IterCollect(heap, cursors[c]) = ElementsOf(cursors[c].src)
        /\ cursors[c].src = Shared => cursors[c].seen \o IterCollect(heap, cursors[c]) = SharedSrc
        /\ SizeHint(cursors[c]) = Len(IterCollect(heap, cursors[c]))
\* C8: in every interleaving of the threads' clones, drops and cursor steps,
\* every handle's length is its element count, every cursor produces the
\* elements of the list it was taken from in head-to-tail order (for the shared
\* list: the elements it was built from), no node reachable from a live handle
\* or cursor is released, and every strong count is the number of references
\* to its node.
C8_ConcurrentUseIsSafe ==
    /\ LengthExact
    /\ ElementsOf(Shared) = SharedSrc
    /\ CursorsAgree
    /\ NoLiveNodeReleased
    /\ CountsExact
C8_Witness ==
    /\ last.op = "dealloc"
    /\ \E t, u \in Threads :
          /\ t # u
          /\ cursors[t] # NoCursor /\ cursors[t].src = Shared /\ Len(cursors[t].seen) = 1
          /\ cursors[u] # NoCursor /\ cursors[u].src = Shared /\ Len(cursors[u].seen) = 2
          /\ handles[Own(t)].node = handles[Shared].node
          /\ ~IsLive(handles[Own(u)])

====
